---- MODULE Spec2Model ----
(***************************************************************************)
(* Model of the event-to-report translation engine of rlm2cedit:          *)
(* src/event_handler/mod.rs, struct EventHandler and its poll loop `run`.  *)
(*                                                                         *)
(* Time is a discrete monotonic clock `now` (one unit = one millisecond).  *)
(* The digital-button bitmask w_buttons is the set of the buttons whose    *)
(* bit is set (every ControllerButton other than the triggers is one bit   *)
(* of XButton).  The f64 vectors handed to the shaping functions are       *)
(* rationals xn/q, yn/q with a common denominator; the conversion          *)
(* `as i16` truncates toward zero and saturates.                           *)
(***************************************************************************)
EXTENDS Integers, Sequences, FiniteSets, TLC

VARIABLES
    config,     \* EventHandler.config, fixed at construction
    env,        \* the inputs the input-capture side exercises under this config
    rx,         \* number of events waiting in the mpsc channel
    self,       \* the mutable fields of EventHandler
    w, a, s, d, \* the locals of run()
    now,        \* the monotonic clock read by Instant::now()
    pc,         \* position of run() inside the loop body
    event,      \* result of the try_recv loop of the current tick
    tick,       \* what the current tick has done so far (observation only)
    pushed,     \* the report last handed to vigem.update (observation only)
    dodged,     \* a dodge resolution has set analog_lock_end (observation only)
    last        \* the event dispatched last, the digital state before it, and
                \* the same of the event before when both are of one input

vars == <<config, env, rx, self, w, a, s, d, now, pc, event, tick, pushed, dodged, last>>

----------------------------------------------------------------------------
(* Bounds *)

MaxQueue == 2      \* events waiting in the channel
MaxTime == 3       \* the clock stops advancing here
MaxDt == 1         \* longest time one poll can take
MaxSamples == 2    \* mouse samples kept in the queue
MaxVec == 12       \* largest component numerator handed to a shaping on its own

----------------------------------------------------------------------------
(* Types *)

Down == "Down"
Up == "Up"
KeyState == {Down, Up}

Keyboard(scancode) == <<"Keyboard", scancode>>
Mouse(button) == <<"Mouse", button>>

Button(b) == [kind |-> "Button", button |-> b]
Analog(x, y) == [kind |-> "Analog", x |-> x, y |-> y]

NoEvent == [kind |-> "None"]
MouseMoveEv(x, y) == [kind |-> "MouseMove", x |-> x, y |-> y]
MouseButtonEv(b, st) == [kind |-> "MouseButton", button |-> b, state |-> st]
KeyboardEv(c, st) == [kind |-> "Keyboard", scancode |-> c, state |-> st]
ResetEv == [kind |-> "Reset"]

I16_MAX == 32767
I16_MIN == -32768
U8_MAX == 255
ANALOG_MAX == 32768

XUSBReportDefault ==
    [w_buttons |-> {}, b_left_trigger |-> 0, b_right_trigger |-> 0,
     s_thumb_lx |-> 0, s_thumb_ly |-> 0, s_thumb_rx |-> 0, s_thumb_ry |-> 0]

----------------------------------------------------------------------------
(* Configurations.  Durations are in milliseconds. *)

ConfigDefault ==
    [sensitivity |-> 1,
     sample_window |-> 1,
     dodge_lock_duration |-> 2,
     spin_period |-> 1,
     oversteer_alert_enabled |-> FALSE,
     oversteer_alert_threshold |-> <<3, 2>>,     \* 1.5 as a fraction
     analog_mask |-> <<TRUE, TRUE>>,
     analog_circularize |-> TRUE,
     mouse_button_fix |-> FALSE,
     binds |-> <<>>,
     dodge_binds |-> <<>>]

\* W/A/S/D are the four directions on pairwise distinct buttons, J jumps.
ConfigKeys ==
    [ConfigDefault EXCEPT
        !.binds = (Keyboard("W") :> Button("DpadUp")) @@
                  (Keyboard("S") :> Button("DpadDown")) @@
                  (Keyboard("A") :> Button("DpadLeft")) @@
                  (Keyboard("D") :> Button("DpadRight")) @@
                  (Keyboard("J") :> Button("A")),
        !.dodge_binds = ("Jump" :> Keyboard("J")) @@
                        ("Forwards" :> Keyboard("W")) @@
                        ("Backwards" :> Keyboard("S")) @@
                        ("Left" :> Keyboard("A")) @@
                        ("Right" :> Keyboard("D"))]

\* Both mouse buttons on one button, a trigger-mapped direction, jump on
\* the right mouse button, linear shaping, mouse_button_fix and the alert on.
ConfigMouse ==
    [ConfigDefault EXCEPT
        !.mouse_button_fix = TRUE,
        !.analog_circularize = FALSE,
        !.oversteer_alert_enabled = TRUE,
        !.oversteer_alert_threshold = <<1, 1>>,
        !.binds = (Mouse("Left") :> Button("X")) @@
                  (Mouse("Right") :> Button("X")) @@
                  (Keyboard("Q") :> Button("RightTrigger")),
        !.dodge_binds = ("Jump" :> Mouse("Right")) @@
                        ("Forwards" :> Keyboard("Q"))]

\* mouse_button_fix with the right mouse button and a key on one trigger,
\* jump on the left mouse button.
ConfigFix ==
    [ConfigDefault EXCEPT
        !.mouse_button_fix = TRUE,
        !.binds = (Mouse("Left") :> Button("X")) @@
                  (Mouse("Right") :> Button("LeftTrigger")) @@
                  (Keyboard("Q") :> Button("LeftTrigger")),
        !.dodge_binds = ("Jump" :> Mouse("Left")) @@
                        ("Backwards" :> Keyboard("Q"))]

\* An analog-override bind, a direction on the analog-override bind, a
\* direction on an unbound key, x axis only; jump on the left mouse button.
ConfigAnalog ==
    [ConfigDefault EXCEPT
        !.analog_mask = <<TRUE, FALSE>>,
        !.binds = (Keyboard("F") :> Analog(1, 0)) @@
                  (Mouse("Left") :> Button("B")),
        !.dodge_binds = ("Jump" :> Mouse("Left")) @@
                        ("Left" :> Keyboard("F")) @@
                        ("Right" :> Keyboard("W"))]

\* mouse_button_fix with both mouse buttons on one trigger, no gestures.
ConfigTrigger ==
    [ConfigDefault EXCEPT
        !.mouse_button_fix = TRUE,
        !.binds = (Mouse("Left") :> Button("LeftTrigger")) @@
                  (Mouse("Right") :> Button("LeftTrigger"))]

\* A configuration together with the inputs exercised under it.
Scenarios ==
    {[config |-> ConfigKeys,
      env |-> [keys |-> {"W", "A", "J"}, buttons |-> {}, moves |-> {}]],
     [config |-> ConfigKeys,
      env |-> [keys |-> {"W", "S", "J"}, buttons |-> {}, moves |-> {}]],
     [config |-> ConfigKeys,
      env |-> [keys |-> {"A", "D", "J"}, buttons |-> {}, moves |-> {}]],
     [config |-> ConfigMouse,
      env |-> [keys |-> {"Q"}, buttons |-> {"Left", "Right"}, moves |-> {}]],
     [config |-> ConfigFix,
      env |-> [keys |-> {"Q"}, buttons |-> {"Left", "Right"}, moves |-> {}]],
     [config |-> ConfigAnalog,
      env |-> [keys |-> {"F", "W"}, buttons |-> {"Left"},
               moves |-> {<<5, 5>>}]],
     [config |-> ConfigTrigger,
      env |-> [keys |-> {}, buttons |-> {"Left", "Right"}, moves |-> {}]],
     [config |-> ConfigDefault,
      env |-> [keys |-> {}, buttons |-> {},
               moves |-> {<<5, -5>>, <<20, -3>>}]]}

Events ==
    {MouseMoveEv(mv[1], mv[2]) : mv \in env.moves}
        \cup {MouseButtonEv(b, st) : b \in env.buttons, st \in KeyState}
        \cup {KeyboardEv(c, st) : c \in env.keys, st \in KeyState}
        \cup {ResetEv}

----------------------------------------------------------------------------
(* Arithmetic *)

Abs(n) == IF n < 0 THEN -n ELSE n
Max(m, n) == IF m >= n THEN m ELSE n

\* n/q truncated toward zero (q > 0)
Trunc(n, q) == IF n >= 0 THEN n \div q ELSE -((-n) \div q)

\* `v as i16` for the f64 value n/q: truncation, then saturation
AsI16(n, q) ==
    LET t == Trunc(n, q)
    IN  IF t > I16_MAX THEN I16_MAX ELSE IF t < I16_MIN THEN I16_MIN ELSE t

----------------------------------------------------------------------------
(* Shaping.  m is [self, tick]: the handler's fields and what the current *)
(* tick has done so far.  The vector is (xn/q, yn/q).  Each shaping        *)
(* function notes in the tick its argument and `out`, the projected vector *)
(* (out[1]/out[3], out[2]/out[3]) before the conversion `as i16`.          *)

\* cos(atan2(y,x)) * hypot(x,y) is x and sin(atan2(y,x)) * hypot(x,y) is y
set_analog_circularized(m, xn, yn, q) ==
    [m EXCEPT !.self.report.s_thumb_lx = AsI16(xn * ANALOG_MAX, q),
              !.self.report.s_thumb_ly = AsI16(yn * ANALOG_MAX, q),
              !.tick.circular = <<[x |-> xn, y |-> yn, q |-> q,
                                   out |-> <<xn * ANALOG_MAX, yn * ANALOG_MAX, q>>]>>]

\* each axis is clipped to [-1, 1] on its own
set_analog_linearClip(m, xn, yn, q) ==
    LET Clip(n) == IF n > q THEN q ELSE IF n < -q THEN -q ELSE n
    IN  [m EXCEPT !.self.report.s_thumb_rx = AsI16(Clip(xn) * ANALOG_MAX, q),
                  !.self.report.s_thumb_ry = AsI16(Clip(yn) * ANALOG_MAX, q),
                  !.tick.linear = <<[x |-> xn, y |-> yn, q |-> q,
                                     out |-> <<Clip(xn) * ANALOG_MAX,
                                               Clip(yn) * ANALOG_MAX, q>>]>>]

\* in the second branch cos(angle) * radius / overshoot is x / overshoot.
\* The f64 arithmetic is taken as exact; the rounding of atan2, cos and sin
\* can leave a converted value one unit nearer to zero where the exact
\* product is a whole number.
set_analog_linear(m, xn, yn, q) ==
    IF Abs(xn) <= q /\ Abs(yn) <= q
    THEN [m EXCEPT !.self.report.s_thumb_rx = AsI16(xn * ANALOG_MAX, q),
                   !.self.report.s_thumb_ry = AsI16(yn * ANALOG_MAX, q),
                   !.tick.linear = <<[x |-> xn, y |-> yn, q |-> q,
                                      out |-> <<xn * ANALOG_MAX, yn * ANALOG_MAX, q>>]>>]
    ELSE LET overshoot == Max(Abs(xn), Abs(yn))
         IN  [m EXCEPT !.self.report.s_thumb_rx = AsI16(xn * ANALOG_MAX, overshoot),
                       !.self.report.s_thumb_ry = AsI16(yn * ANALOG_MAX, overshoot),
                       !.tick.linear = <<[x |-> xn, y |-> yn, q |-> q,
                                          out |-> <<xn * ANALOG_MAX, yn * ANALOG_MAX,
                                                    overshoot>>]>>]

set_analog(m, xn, yn, q) ==
    LET th == config.oversteer_alert_threshold
        alert == Max(Abs(xn), Abs(yn)) * th[2] >= th[1] * q
        m1 == IF m.self.tone_generator = <<>> THEN m
              ELSE [m EXCEPT !.self.tone_generator = <<[enabled |-> alert]>>,
                             !.tick.alerts = Append(@, alert)]
    IN  IF config.analog_circularize
        THEN set_analog_circularized(m1, xn, yn, q)
        ELSE set_analog_linear(m1, xn, yn, q)

----------------------------------------------------------------------------
(* Bind resolution and dodge resolution *)

dodge_action_pressed(m, action) ==
    IF action \notin DOMAIN config.dodge_binds THEN FALSE
    ELSE LET bind == config.dodge_binds[action]
         IN  IF bind \notin DOMAIN config.binds THEN FALSE
             ELSE LET ca == config.binds[bind]
                  IN  IF ca.kind # "Button" THEN FALSE
                      ELSE IF ca.button = "LeftTrigger"
                           THEN m.self.report.b_left_trigger > 0
                      ELSE IF ca.button = "RightTrigger"
                           THEN m.self.report.b_right_trigger > 0
                      ELSE ca.button \in m.self.report.w_buttons

\* the table `actions` of handle_jump: <<action, idx, diff>>
DodgeActions ==
    << <<"Forwards", 2, 1>>, <<"Backwards", 2, -1>>,
       <<"Left", 1, -1>>, <<"Right", 1, 1>> >>

\* a held direction overwrites its axis instead of adding to it
RECURSIVE DodgeSumAssign(_, _, _)
DodgeSumAssign(m, i, analog) ==
    IF i > Len(DodgeActions) THEN analog
    ELSE LET act == DodgeActions[i]
         IN  DodgeSumAssign(m, i + 1,
                 IF dodge_action_pressed(m, act[1])
                 THEN [analog EXCEPT ![act[2]] = act[3]]
                 ELSE analog)

RECURSIVE DodgeSum(_, _, _)
DodgeSum(m, i, analog) ==
    IF i > Len(DodgeActions) THEN analog
    ELSE LET act == DodgeActions[i]
         IN  DodgeSum(m, i + 1,
                 IF dodge_action_pressed(m, act[1])
                 THEN [analog EXCEPT ![act[2]] = @ + act[3]]
                 ELSE analog)

handle_jump(m) ==
    LET analog == DodgeSum(m, 1, <<0, 0>>)
        m1 == [m EXCEPT !.self.analog_locked = TRUE,
                        !.self.analog_lock_end = now + config.dodge_lock_duration,
                        !.self.analog_lock_x = analog[1],
                        !.self.analog_lock_y = analog[2],
                        !.tick.jumps = @ + 1]
    IN  set_analog(m1, analog[1], analog[2], 1)

\* a press toggles the bit or trigger instead of setting it
ApplyButtonToggle(report, button, state) ==
    IF button = "LeftTrigger"
    THEN [report EXCEPT !.b_left_trigger =
              IF state = Down /\ @ = 0 THEN U8_MAX ELSE 0]
    ELSE IF button = "RightTrigger"
    THEN [report EXCEPT !.b_right_trigger =
              IF state = Down /\ @ = 0 THEN U8_MAX ELSE 0]
    ELSE [report EXCEPT !.w_buttons =
              IF state = Down /\ button \notin @ THEN @ \cup {button}
                                                  ELSE @ \ {button}]

\* a release clears the whole bitmask instead of one bit
ApplyButtonClearAll(report, button, state) ==
    IF button = "LeftTrigger"
    THEN [report EXCEPT !.b_left_trigger = IF state = Down THEN U8_MAX ELSE 0]
    ELSE IF button = "RightTrigger"
    THEN [report EXCEPT !.b_right_trigger = IF state = Down THEN U8_MAX ELSE 0]
    ELSE [report EXCEPT !.w_buttons = IF state = Down THEN @ \cup {button}
                                                       ELSE {}]

\* the digital effect of handle_bind: lines 281-300
ApplyButton(report, button, state) ==
    IF button = "LeftTrigger"
    THEN [report EXCEPT !.b_left_trigger = IF state = Down THEN U8_MAX ELSE 0]
    ELSE IF button = "RightTrigger"
    THEN [report EXCEPT !.b_right_trigger = IF state = Down THEN U8_MAX ELSE 0]
    ELSE [report EXCEPT !.w_buttons = IF state = Down THEN @ \cup {button}
                                                       ELSE @ \ {button}]

handle_bind(m, bind, state) ==
    IF bind \notin DOMAIN config.binds THEN m
    ELSE LET ca == config.binds[bind]
         IN  IF ca.kind = "Analog" THEN m
             ELSE LET m1 == [m EXCEPT !.self.report = ApplyButton(@, ca.button, state)]
                  IN  IF state = Up THEN m1
                      ELSE IF "Jump" \in DOMAIN config.dodge_binds
                              /\ config.dodge_binds["Jump"] = bind
                           THEN handle_jump(m1)
                           ELSE m1

----------------------------------------------------------------------------
(* Mouse samples and the analog recomputation *)

handle_mouse_move(m, x, y) ==
    [m EXCEPT !.self.mouse_samples = Append(@, <<x, y, now>>)]

\* a sample whose age equals the window is evicted too
RECURSIVE EvictEager(_)
EvictEager(samples) ==
    IF samples = <<>> THEN samples
    ELSE IF now - Head(samples)[3] >= config.sample_window
         THEN EvictEager(Tail(samples))
         ELSE samples

\* lines 367-378: pop the front while it is older than the window
RECURSIVE Evict(_)
Evict(samples) ==
    IF samples = <<>> THEN samples
    ELSE IF now - Head(samples)[3] > config.sample_window
         THEN Evict(Tail(samples))
         ELSE samples

RECURSIVE SumAxis(_, _)
SumAxis(samples, i) ==
    IF samples = <<>> THEN 0 ELSE Head(samples)[i] + SumAxis(Tail(samples), i)

\* multiplier = sensitivity / (1e4 * window in seconds)
\*            = sensitivity / (10 * window in milliseconds)
MultiplierDen == 10 * config.sample_window

\* the y component keeps the sign of the summed deltas
update_analogKeepSign(m) ==
    LET kept == Evict(m.self.mouse_samples)
        vel0 == IF config.analog_mask[1] THEN SumAxis(kept, 1) ELSE 0
        vel1 == IF config.analog_mask[2] THEN SumAxis(kept, 2) ELSE 0
        x == vel0 * config.sensitivity
        y == vel1 * config.sensitivity
        q == MultiplierDen
        m1 == [m EXCEPT !.self.mouse_samples = kept, !.tick.recomputed = TRUE,
                        !.tick.before = m.self.mouse_samples,
                        !.tick.shaped = <<[x |-> x, y |-> y, q |-> q]>>]
    IN  set_analog_linear(m1, x, y, q)

update_analog(m) ==
    LET kept == Evict(m.self.mouse_samples)
        vel0 == IF config.analog_mask[1] THEN SumAxis(kept, 1) ELSE 0
        vel1 == IF config.analog_mask[2] THEN SumAxis(kept, 2) ELSE 0
        x == vel0 * config.sensitivity
        y == -vel1 * config.sensitivity
        q == MultiplierDen
        m1 == [m EXCEPT !.self.mouse_samples = kept, !.tick.recomputed = TRUE,
                        !.tick.before = m.self.mouse_samples,
                        !.tick.shaped = <<[x |-> x, y |-> y, q |-> q]>>]
    IN  set_analog_linear(m1, x, y, q)

----------------------------------------------------------------------------
(* The poll loop *)

TickStart ==
    [entered |-> TRUE, dequeued |-> 0, jumps |-> 0, alerts |-> <<>>, recomputed |-> FALSE,
     before |-> <<>>, shaped |-> <<>>, linear |-> <<>>, circular |-> <<>>,
     pushes |-> 0, sink |-> "none"]

IsPress(e) == e.kind \in {"Keyboard", "MouseButton"} /\ e.state = Down
IsRelease(e) == e.kind \in {"Keyboard", "MouseButton"} /\ e.state = Up

EventBind(e) == IF e.kind = "Keyboard" THEN Keyboard(e.scancode) ELSE Mouse(e.button)

\* two events of the same key or mouse button
SameInput(e1, e2) ==
    /\ e1.kind \in {"Keyboard", "MouseButton"}
    /\ e2.kind \in {"Keyboard", "MouseButton"}
    /\ EventBind(e1) = EventBind(e2)

Digital(report) ==
    [w_buttons |-> report.w_buttons,
     b_left_trigger |-> report.b_left_trigger,
     b_right_trigger |-> report.b_right_trigger]

Init ==
    /\ \E sc \in Scenarios : config = sc.config /\ env = sc.env
    /\ rx = 0
    /\ self = [report |-> XUSBReportDefault,
               tone_generator |-> IF config.oversteer_alert_enabled
                                  THEN <<[enabled |-> FALSE]>> ELSE <<>>,
               mouse_samples |-> <<>>,
               mouse_button_states |-> <<Up, Up>>,
               analog_locked |-> FALSE,
               analog_lock_end |-> 0,
               analog_lock_x |-> 0,
               analog_lock_y |-> 0]
    /\ w = FALSE /\ a = FALSE /\ s = FALSE /\ d = FALSE
    /\ now = 0
    /\ pc = "poll"
    /\ event = NoEvent
    /\ tick = [TickStart EXCEPT !.entered = FALSE]
    /\ pushed = XUSBReportDefault
    /\ dodged = FALSE
    /\ last = [event |-> NoEvent, digital |-> Digital(XUSBReportDefault), prev |-> <<>>]

\* the input-capture side sends an event into the channel
Send ==
    /\ rx < MaxQueue
    /\ rx' = rx + 1
    /\ UNCHANGED <<config, env, self, w, a, s, d, now, pc, event, tick, pushed, dodged, last>>

\* lines 170-176: try_recv returns an event, at once or while spinning
Recv ==
    /\ pc = "poll"
    /\ rx > 0
    /\ \E e \in Events, dt \in 0..MaxDt :
        /\ now + dt <= MaxTime
        /\ e.kind = "MouseMove" => Len(self.mouse_samples) < MaxSamples
        /\ event' = e
        /\ now' = now + dt
    /\ rx' = rx - 1
    /\ tick' = [TickStart EXCEPT !.dequeued = 1]
    /\ pc' = "dispatch"
    /\ UNCHANGED <<config, env, self, w, a, s, d, pushed, dodged, last>>

\* lines 170-176: the channel stays empty until spin_period has elapsed
SpinTimeout ==
    /\ pc = "poll"
    /\ rx = 0
    /\ \E dt \in config.spin_period..MaxDt :
        /\ now + dt <= MaxTime
        /\ now' = now + dt
    /\ event' = NoEvent
    /\ tick' = TickStart
    /\ pc' = "dispatch"
    /\ UNCHANGED <<config, env, rx, self, w, a, s, d, pushed, dodged, last>>

Dispatched(m) ==
    /\ self' = m.self
    /\ tick' = m.tick
    /\ dodged' = (dodged \/ m.tick.jumps > 0)
    /\ last' = [event |-> event,
                digital |-> Digital(self.report),
                prev |-> IF SameInput(last.event, event)
                         THEN <<[event |-> last.event, digital |-> last.digital]>>
                         ELSE <<>>]
    /\ pc' = "update"
    /\ UNCHANGED <<config, env, rx, now, event, pushed>>

\* line 180
DispatchMouseMove ==
    /\ pc = "dispatch"
    /\ event.kind = "MouseMove"
    /\ Dispatched(handle_mouse_move([self |-> self, tick |-> tick], event.x, event.y))
    /\ UNCHANGED <<w, a, s, d>>

\* a release does not re-apply the mouse buttons still held
MouseButtonArmNoFix(m, button, state) ==
    LET m1 == IF button = "Left"
              THEN [m EXCEPT !.self.mouse_button_states[1] = state] ELSE m
        m2 == IF button = "Right"
              THEN [m1 EXCEPT !.self.mouse_button_states[2] = state] ELSE m1
    IN  handle_bind(m2, Mouse(button), state)

\* lines 182-202
MouseButtonArm(m, button, state) ==
    LET m1 == IF button = "Left"
              THEN [m EXCEPT !.self.mouse_button_states[1] = state] ELSE m
        m2 == IF button = "Right"
              THEN [m1 EXCEPT !.self.mouse_button_states[2] = state] ELSE m1
        m3 == handle_bind(m2, Mouse(button), state)
    IN  IF config.mouse_button_fix /\ state = Up
        THEN LET m4 == IF m3.self.mouse_button_states[1] = Down
                       THEN handle_bind(m3, Mouse("Left"), Down) ELSE m3
             IN  IF m4.self.mouse_button_states[2] = Down
                 THEN handle_bind(m4, Mouse("Right"), Down) ELSE m4
        ELSE m3

DispatchMouseButton ==
    /\ pc = "dispatch"
    /\ event.kind = "MouseButton"
    /\ Dispatched(MouseButtonArm([self |-> self, tick |-> tick], event.button, event.state))
    /\ UNCHANGED <<w, a, s, d>>

\* lines 206-229: one tracked hold flag
Held(flag, code, scancode, state) ==
    IF scancode = code THEN state = Down ELSE flag

\* lines 230-239
StickFromFlags(pos, neg) ==
    IF pos = neg THEN 0 ELSE IF pos THEN I16_MAX ELSE I16_MIN

\* the left stick is written from the flags before the bind is handled
DispatchKeyboardStickFirst ==
    /\ pc = "dispatch"
    /\ event.kind = "Keyboard"
    /\ w' = Held(w, "W", event.scancode, event.state)
    /\ a' = Held(a, "A", event.scancode, event.state)
    /\ s' = Held(s, "S", event.scancode, event.state)
    /\ d' = Held(d, "D", event.scancode, event.state)
    /\ LET m0 == [self |-> self, tick |-> tick]
           m1 == [m0 EXCEPT !.self.report.s_thumb_ly = StickFromFlags(w', s'),
                            !.self.report.s_thumb_lx = StickFromFlags(d', a')]
       IN  Dispatched(handle_bind(m1, Keyboard(event.scancode), event.state))

\* lines 204-240
DispatchKeyboard ==
    /\ pc = "dispatch"
    /\ event.kind = "Keyboard"
    /\ w' = Held(w, "W", event.scancode, event.state)
    /\ a' = Held(a, "A", event.scancode, event.state)
    /\ s' = Held(s, "S", event.scancode, event.state)
    /\ d' = Held(d, "D", event.scancode, event.state)
    /\ LET m1 == handle_bind([self |-> self, tick |-> tick],
                             Keyboard(event.scancode), event.state)
       IN  Dispatched([m1 EXCEPT !.self.report.s_thumb_ly = StickFromFlags(w', s'),
                                 !.self.report.s_thumb_lx = StickFromFlags(d', a')])

\* the triggers survive the reset
ResetArmKeepTriggers(m) ==
    [m EXCEPT !.self.mouse_button_states = <<Up, Up>>,
              !.self.report = [XUSBReportDefault EXCEPT
                                  !.b_left_trigger = m.self.report.b_left_trigger,
                                  !.b_right_trigger = m.self.report.b_right_trigger]]

\* lines 242-245
ResetArm(m) ==
    [m EXCEPT !.self.mouse_button_states = <<Up, Up>>,
              !.self.report = XUSBReportDefault]

DispatchReset ==
    /\ pc = "dispatch"
    /\ event.kind = "Reset"
    /\ Dispatched(ResetArm([self |-> self, tick |-> tick]))
    /\ UNCHANGED <<w, a, s, d>>

\* a tick without an event goes straight back to polling
DispatchNoneSkip ==
    /\ pc = "dispatch"
    /\ event.kind = "None"
    /\ pc' = "poll"
    /\ UNCHANGED <<config, env, rx, self, w, a, s, d, now, event, tick, pushed, dodged, last>>

\* line 178: no event was obtained
DispatchNone ==
    /\ pc = "dispatch"
    /\ event.kind = "None"
    /\ pc' = "update"
    /\ UNCHANGED <<config, env, rx, self, w, a, s, d, now, event, tick, pushed, dodged, last>>

\* line 249
UpdateAnalog ==
    /\ pc = "update"
    /\ LET m == update_analog([self |-> self, tick |-> tick])
       IN  self' = m.self /\ tick' = m.tick
    /\ pc' = "push"
    /\ UNCHANGED <<config, env, rx, w, a, s, d, now, event, pushed, dodged, last>>

\* line 250: vigem.update succeeds and the loop goes on
PushOk ==
    /\ pc = "push"
    /\ pushed' = self.report
    /\ tick' = [tick EXCEPT !.pushes = @ + 1, !.sink = "Ok"]
    /\ pc' = "poll"
    /\ UNCHANGED <<config, env, rx, self, w, a, s, d, now, event, dodged, last>>

\* vigem.update fails and the loop goes on with the next iteration
PushErrContinue ==
    /\ pc = "push"
    /\ pushed' = self.report
    /\ tick' = [tick EXCEPT !.pushes = @ + 1, !.sink = "Err"]
    /\ pc' = "poll"
    /\ UNCHANGED <<config, env, rx, self, w, a, s, d, now, event, dodged, last>>

\* line 250: vigem.update fails and `?` returns the error from run()
PushErr ==
    /\ pc = "push"
    /\ pushed' = self.report
    /\ tick' = [tick EXCEPT !.pushes = @ + 1, !.sink = "Err"]
    /\ pc' = "returned"
    /\ UNCHANGED <<config, env, rx, self, w, a, s, d, now, event, dodged, last>>

Next ==
    \/ Send
    \/ Recv
    \/ SpinTimeout
    \/ DispatchMouseMove
    \/ DispatchMouseButton
    \/ DispatchKeyboard
    \/ DispatchReset
    \/ DispatchNone
    \/ UpdateAnalog
    \/ PushOk
    \/ PushErr

Spec == Init /\ [][Next]_vars

\* lines 440-457 on their own: set_analog_linear applied to a vector drawn
\* from a grid, over a whole denominator (as from handle_jump) or over the
\* denominator of the multiplier (as from update_analog), on the handler as
\* constructed
ShapeLinear ==
    /\ pc = "poll"
    /\ ~tick.entered
    /\ \E xn \in -MaxVec..MaxVec, yn \in -MaxVec..MaxVec, q \in {1, MultiplierDen} :
          LET m == set_analog_linear([self |-> self, tick |-> TickStart], xn, yn, q)
          IN  self' = m.self /\ tick' = m.tick
    /\ UNCHANGED <<config, env, rx, w, a, s, d, now, pc, event, pushed, dodged, last>>

NextLinear == ShapeLinear

SpecLinear == Init /\ [][NextLinear]_vars

TypeOK ==
    /\ rx \in 0..MaxQueue
    /\ now \in 0..MaxTime
    /\ pc \in {"poll", "dispatch", "update", "push", "returned"}
    /\ Len(self.mouse_samples) <= MaxSamples
    /\ self.report.s_thumb_lx \in I16_MIN..I16_MAX
    /\ self.report.s_thumb_rx \in I16_MIN..I16_MAX

----------------------------------------------------------------------------
(* Vocabulary of the properties *)

BoundDigital(bind) ==
    bind \in DOMAIN config.binds /\ config.binds[bind].kind = "Button"

\* the tick that dispatched `event` has pushed its report
TickPushed == tick.entered /\ tick.pushes = 1

\* the four directions are bound to inputs on pairwise distinct buttons
Directions == {"Forwards", "Backwards", "Left", "Right"}

DistinctDirections ==
    /\ \A g \in Directions :
          /\ g \in DOMAIN config.dodge_binds
          /\ BoundDigital(config.dodge_binds[g])
          /\ config.binds[config.dodge_binds[g]].button
                \notin {"LeftTrigger", "RightTrigger"}
    /\ \A g, h \in Directions :
          g # h => config.binds[config.dodge_binds[g]].button
                      # config.binds[config.dodge_binds[h]].button

\* gesture g is held: the bit of its button is set in the report
GestureHeld(g) ==
    config.binds[config.dodge_binds[g]].button \in self.report.w_buttons

Sign(pos, neg) == IF pos = neg THEN 0 ELSE IF pos THEN 1 ELSE -1

----------------------------------------------------------------------------
(* C1: every tick dequeues at most one event and pushes exactly one report, *)
(* after the analog output was recomputed, with or without an event.        *)
C1_OneEventOnePushPerTick ==
    /\ tick.dequeued <= 1
    /\ (tick.dequeued = 0) <=> (event.kind = "None")
    /\ tick.pushes <= 1
    /\ tick.pushes = 1 => tick.recomputed /\ pushed = self.report
    /\ (tick.entered /\ pc \in {"poll", "returned"}) => tick.pushes = 1
    /\ pc \in {"dispatch", "update", "push"} => tick.pushes = 0

C1_Witness ==
    /\ pc = "poll" /\ tick.entered /\ event.kind = "None"
    /\ tick.dequeued = 0 /\ tick.recomputed /\ tick.pushes = 1
    /\ rx > 0

(* C2: the report pushed in a tick that dispatches Reset has no button set  *)
(* and both triggers at zero.                                               *)
C2_ResetClearsDigital ==
    (TickPushed /\ event.kind = "Reset")
        => /\ pushed.w_buttons = {}
           /\ pushed.b_left_trigger = 0
           /\ pushed.b_right_trigger = 0

C2_Witness ==
    /\ TickPushed /\ event.kind = "Reset"
    /\ last.digital.w_buttons # {}
    /\ last.digital.b_left_trigger = U8_MAX
    /\ pushed.w_buttons = {}

(* C3: the report pushed in a tick that dispatches Reset has all four axes  *)
(* of the two sticks at zero.                                               *)
C3_ResetZeroesAxes ==
    (TickPushed /\ event.kind = "Reset")
        => /\ pushed.s_thumb_lx = 0 /\ pushed.s_thumb_ly = 0
           /\ pushed.s_thumb_rx = 0 /\ pushed.s_thumb_ry = 0

(* C4: after a tick that dispatches Reset no analog lock is active.         *)
C4_ResetClearsLock ==
    (TickPushed /\ event.kind = "Reset") => ~self.analog_locked

\* the bit or trigger of `button` is clear in a digital state
Clear(digital, button) ==
    IF button = "LeftTrigger" THEN digital.b_left_trigger = 0
    ELSE IF button = "RightTrigger" THEN digital.b_right_trigger = 0
    ELSE button \notin digital.w_buttons

\* the last two dispatched events are a press and then the release of one
\* input bound to a digital button or trigger
PressThenRelease ==
    /\ last.prev # <<>>
    /\ IsPress(last.prev[1].event)
    /\ IsRelease(last.event)
    /\ BoundDigital(EventBind(last.event))

\* the last two dispatched events are two presses of one input bound to a
\* digital button or trigger
PressThenPress ==
    /\ last.prev # <<>>
    /\ IsPress(last.prev[1].event)
    /\ IsPress(last.event)
    /\ BoundDigital(EventBind(last.event))

(* C5: a press followed by the release of an input bound to a digital       *)
(* button or trigger leaves the bitmask and both triggers as they were      *)
(* before the press, whatever the state before the press was.               *)
C5_PressReleaseRestores ==
    PressThenRelease => Digital(self.report) = last.prev[1].digital

(* C5 as amended: the same, provided that the button bit or trigger of the  *)
(* input was clear before the press and that the release is not followed by *)
(* the re-application of held mouse buttons (mouse_button_fix off, or the   *)
(* input is a key).                                                         *)
C5_PressReleaseRestoresWhenClear ==
    (/\ PressThenRelease
     /\ Clear(last.prev[1].digital, config.binds[EventBind(last.event)].button)
     /\ (~config.mouse_button_fix \/ last.event.kind = "Keyboard"))
        => Digital(self.report) = last.prev[1].digital

C5_Witness ==
    /\ PressThenRelease
    /\ Clear(last.prev[1].digital, config.binds[EventBind(last.event)].button)
    /\ ~config.mouse_button_fix \/ last.event.kind = "Keyboard"
    /\ last.prev[1].digital # Digital(XUSBReportDefault)
    /\ last.digital # last.prev[1].digital
    /\ Digital(self.report) = last.prev[1].digital

(* C6: two presses of an input bound to a digital button or trigger with no *)
(* release in between leave the bitmask and both triggers as they are after *)
(* the first press.                                                         *)
C6_DoublePressIdempotent ==
    PressThenPress => Digital(self.report) = last.digital

C6_Witness ==
    /\ PressThenPress
    /\ last.digital # last.prev[1].digital
    /\ Digital(self.report) = last.digital
    /\ pc = "update"

(* C7: with the four directions on pairwise distinct buttons, the vector    *)
(* locked by a dodge resolution is a function of the set of directions held *)
(* at the jump press: Right minus Left on x, Forwards minus Backwards on y, *)
(* so Forwards+Left is (-1,1) and opposing directions cancel.               *)
C7_DodgeVectorFromHeldSet ==
    (DistinctDirections /\ pc = "update" /\ tick.jumps > 0)
        => /\ tick.jumps = 1
           /\ self.analog_locked
           /\ self.analog_lock_x = Sign(GestureHeld("Right"), GestureHeld("Left"))
           /\ self.analog_lock_y = Sign(GestureHeld("Forwards"), GestureHeld("Backwards"))

C7_Witness ==
    /\ DistinctDirections /\ pc = "update" /\ tick.jumps = 1
    /\ GestureHeld("Forwards") /\ GestureHeld("Left")
    /\ ~GestureHeld("Backwards") /\ ~GestureHeld("Right")
    /\ self.analog_lock_x = -1 /\ self.analog_lock_y = 1

\* the stick axes the shaping step selected by the configuration writes
ShapedStick(report) ==
    IF config.analog_circularize
    THEN <<report.s_thumb_lx, report.s_thumb_ly>>
    ELSE <<report.s_thumb_rx, report.s_thumb_ry>>

\* the locked vector after shaping
ShapedLock ==
    <<AsI16(self.analog_lock_x * ANALOG_MAX, 1), AsI16(self.analog_lock_y * ANALOG_MAX, 1)>>

(* C8: once the clock has passed the lock expiry set by a dodge resolution, *)
(* the lock is inactive at the next pushed report, and with no mouse sample *)
(* in the window the pushed analog output is (0,0).                         *)
C8_LockExpires ==
    (TickPushed /\ dodged /\ now > self.analog_lock_end)
        => /\ ~self.analog_locked
           /\ self.mouse_samples = <<>>
                => /\ pushed.s_thumb_lx = 0 /\ pushed.s_thumb_ly = 0
                   /\ pushed.s_thumb_rx = 0 /\ pushed.s_thumb_ry = 0

(* C9: while a dodge lock is active, every pushed report carries the        *)
(* locked vector (after shaping) as its analog output, whatever events are  *)
(* dispatched meanwhile.                                                    *)
C9_LockedOutputIsLockedVector ==
    (TickPushed /\ dodged /\ self.analog_locked /\ now <= self.analog_lock_end)
        => ShapedStick(pushed) = ShapedLock

(* C10: the press of an input bound to Analog(x, y) makes the lock active   *)
(* with the locked vector (x, y); its release clears the lock.              *)
C10_AnalogBindLocks ==
    (/\ pc = "update"
     /\ event.kind \in {"Keyboard", "MouseButton"}
     /\ EventBind(event) \in DOMAIN config.binds
     /\ config.binds[EventBind(event)].kind = "Analog")
        => IF event.state = Down
           THEN /\ self.analog_locked
                /\ self.analog_lock_x = config.binds[EventBind(event)].x
                /\ self.analog_lock_y = config.binds[EventBind(event)].y
           ELSE ~self.analog_locked

(* C11: a tick that dispatches a press or release of a key or mouse button  *)
(* with no entry in the bind table leaves the bitmask, the triggers, both   *)
(* sticks and the lock as a tick with no event would: when the dispatch is  *)
(* over, the report is still the one the tick before pushed and no dodge    *)
(* resolution has touched the lock.                                         *)
C11_UnboundInputIsNoOp ==
    (/\ pc = "update"
     /\ event.kind \in {"Keyboard", "MouseButton"}
     /\ EventBind(event) \notin DOMAIN config.binds)
        => /\ self.report = pushed
           /\ tick.jumps = 0

\* a sample lies within the sampling window at the current clock reading
InWindow(sample) == now - sample[3] <= config.sample_window

(* C12: the mouse-sample queue is always ordered by non-decreasing          *)
(* timestamp, and the eviction of a recomputation removes exactly the       *)
(* samples older than sample_window: the queue after it is the queue before *)
(* it without the samples of age > sample_window (age = window is kept),    *)
(* and it is a suffix of the queue before.                                  *)
C12_EvictionExact ==
    /\ \A i, j \in 1..Len(self.mouse_samples) :
          i <= j => self.mouse_samples[i][3] <= self.mouse_samples[j][3]
    /\ tick.recomputed
          => /\ self.mouse_samples = SelectSeq(tick.before, InWindow)
             /\ self.mouse_samples =
                   SubSeq(tick.before,
                          Len(tick.before) - Len(self.mouse_samples) + 1,
                          Len(tick.before))

C12_Witness ==
    /\ tick.recomputed
    /\ Len(tick.before) = 2
    /\ Len(self.mouse_samples) = 1
    /\ now - self.mouse_samples[1][3] = config.sample_window
    /\ now - tick.before[1][3] > config.sample_window

\* e is an event of the input assigned to the Jump gesture
JumpInput(e) ==
    /\ e.kind \in {"Keyboard", "MouseButton"}
    /\ "Jump" \in DOMAIN config.dodge_binds
    /\ EventBind(e) = config.dodge_binds["Jump"]

(* C13: a dodge resolution runs only in a tick whose dispatched event is a  *)
(* press of the input assigned to the Jump gesture, and once in such a      *)
(* tick; a tick whose dispatched event is a release runs none, under every  *)
(* configuration.                                                           *)
C13_DodgeOnlyOnJumpPress ==
    pc = "update"
        => /\ tick.jumps > 0 => (IsPress(event) /\ JumpInput(event))
           /\ (IsPress(event) /\ JumpInput(event)
                  /\ BoundDigital(EventBind(event))) => tick.jumps = 1
           /\ IsRelease(event) => tick.jumps = 0

(* C14: a failed push ends the loop in the same tick: run() returns, and    *)
(* from then on no event is taken from the channel and no report is pushed. *)
(* run() returns in no other way: no step returns unless the push of that   *)
(* step failed.                                                             *)
C14_PushFailureIsFatal ==
    [][/\ (pc = "push" /\ tick'.sink = "Err") => pc' = "returned"
       /\ pc = "returned"
             => /\ pc' = "returned"
                /\ rx' >= rx
                /\ UNCHANGED <<self, event, tick, pushed, now>>
       /\ (pc # "returned" /\ pc' = "returned")
             => (pc = "push" /\ tick'.sink = "Err")]_vars

C14_Witness ==
    /\ pc = "returned"
    /\ tick.sink = "Err"
    /\ tick.pushes = 1
    /\ rx > 0

(* C15: with the alert enabled, every tick forwards exactly one on/off      *)
(* signal to the tone generator before its report is pushed.                *)
C15_OneAlertSignalPerTick ==
    (TickPushed /\ config.oversteer_alert_enabled) => Len(tick.alerts) = 1

\* the sum of component i over the samples in the queue
SampleSum(i) ==
    LET acc[n \in 0..Len(self.mouse_samples)] ==
            IF n = 0 THEN 0 ELSE acc[n - 1] + self.mouse_samples[n][i]
    IN  acc[Len(self.mouse_samples)]

\* the vector v is (xn/qn, yn/qn) times sensitivity / (1e4 * window in s)
IsScaled(v, xn, yn) ==
    /\ v.x * MultiplierDen = xn * config.sensitivity * v.q
    /\ v.y * MultiplierDen = yn * config.sensitivity * v.q

(* C16: with no lock active, the vector shaped by the recomputation of a    *)
(* tick is the sum of (dx, dy) over the samples left after eviction times   *)
(* sensitivity / (1e4 * sample_window in seconds), y negated; with an empty *)
(* queue the stick it is written to reads (0,0).                            *)
C16_ShapedIsScaledSum ==
    (tick.recomputed /\ ~self.analog_locked)
        => /\ IsScaled(tick.shaped[1], SampleSum(1), -SampleSum(2))
           /\ self.mouse_samples = <<>>
                 => self.report.s_thumb_rx = 0 /\ self.report.s_thumb_ry = 0

(* C16 as amended: the same on each axis enabled in analog_mask; an axis    *)
(* disabled in analog_mask is 0 in the shaped vector.                       *)
C16_ShapedIsMaskedScaledSum ==
    (tick.recomputed /\ ~self.analog_locked)
        => /\ IsScaled(tick.shaped[1],
                       IF config.analog_mask[1] THEN SampleSum(1) ELSE 0,
                       IF config.analog_mask[2] THEN -SampleSum(2) ELSE 0)
           /\ self.mouse_samples = <<>>
                 => self.report.s_thumb_rx = 0 /\ self.report.s_thumb_ry = 0

C16_Witness ==
    /\ tick.recomputed /\ ~self.analog_locked
    /\ config.analog_mask = <<TRUE, TRUE>>
    /\ Len(self.mouse_samples) = 2
    /\ Len(tick.before) = 2
    /\ SampleSum(2) < 0
    /\ tick.shaped[1].y > 0
    /\ self.report.s_thumb_ry > 0

\* the projected vector `out` has magnitude at most ANALOG_MAX; its
\* components are whole multiples of ANALOG_MAX over out[3]
WithinCircle(out) ==
    LET px == out[1] \div ANALOG_MAX
        py == out[2] \div ANALOG_MAX
    IN  px * px + py * py <= out[3] * out[3]

\* a component of the projected vector `out` is a signed 16-bit value
WithinI16(out, i) ==
    I16_MIN * out[3] <= out[i] /\ out[i] <= I16_MAX * out[3]

(* C17: the vector projected by circularized shaping, before its conversion *)
(* to the report fields, has magnitude at most 32768 and both components in *)
(* the signed 16-bit range, for every input, the diagonal dodge vectors     *)
(* included.                                                                *)
C17_CircularizedWithinRange ==
    tick.circular # <<>>
        => /\ WithinCircle(tick.circular[1].out)
           /\ WithinI16(tick.circular[1].out, 1)
           /\ WithinI16(tick.circular[1].out, 2)

\* the projected vector `out` is (xn/den, yn/den)
IsVector(out, xn, yn, den) ==
    /\ out[1] * den = xn * out[3]
    /\ out[2] * den = yn * out[3]

BothMouseButtonsOn(button) ==
    /\ BoundDigital(Mouse("Left")) /\ BoundDigital(Mouse("Right"))
    /\ \A bind \in DOMAIN config.binds :
          (config.binds[bind].kind = "Button" /\ config.binds[bind].button = button)
              <=> bind \in {Mouse("Left"), Mouse("Right")}

\* the buttons and triggers named by the binds of the configuration
BoundButtons ==
    {config.binds[bind].button :
        bind \in {b \in DOMAIN config.binds : config.binds[b].kind = "Button"}}

(* C19: with mouse_button_fix on and the left and the right mouse button,   *)
(* and no other input, bound to one button or trigger, that button is set   *)
(* after every tick iff one of the two tracked mouse-button states is Down. *)
C19_SharedMouseButtonHeld ==
    \A button \in BoundButtons :
        (/\ config.mouse_button_fix
         /\ BothMouseButtonsOn(button)
         /\ pc \in {"poll", "returned"})
            => (~Clear(Digital(self.report), button)
                   <=> Down \in {self.mouse_button_states[1],
                                 self.mouse_button_states[2]})

C19_Witness ==
    /\ config.mouse_button_fix
    /\ BothMouseButtonsOn("X")
    /\ TickPushed
    /\ event = MouseButtonEv("Left", Up)
    /\ self.mouse_button_states = <<Up, Down>>
    /\ "X" \in pushed.w_buttons

(* C20: after a tick that dispatches a Keyboard event, the left stick of    *)
(* the report is a function of the w/a/s/d hold flags alone: y is 0 when    *)
(* w = s, else i16::MAX if w and i16::MIN if s; x is 0 when a = d, else     *)
(* i16::MAX if d and i16::MIN if a; a flag follows the last event of its    *)
(* key.  What a dodge resolution of the same tick wrote is overwritten.     *)
C20_LeftStickFromFlags ==
    (TickPushed /\ event.kind = "Keyboard")
        => /\ pushed.s_thumb_ly =
                 (IF w = s THEN 0 ELSE IF w THEN I16_MAX ELSE I16_MIN)
           /\ pushed.s_thumb_lx =
                 (IF a = d THEN 0 ELSE IF d THEN I16_MAX ELSE I16_MIN)
           /\ event.scancode = "W" => (w <=> event.state = Down)
           /\ event.scancode = "A" => (a <=> event.state = Down)
           /\ event.scancode = "S" => (s <=> event.state = Down)
           /\ event.scancode = "D" => (d <=> event.state = Down)

C20_Witness ==
    /\ TickPushed
    /\ event = KeyboardEv("J", Down)
    /\ tick.jumps = 1
    /\ tick.circular # <<>>
    /\ tick.circular[1].out = <<0, 0, 1>>
    /\ w /\ ~s
    /\ pushed.s_thumb_ly = I16_MAX

====
